---- MODULE Spec2Model ----
(***************************************************************************)
(* A model of plcrash::dwarf_cfa_stack (Source/dwarf_cfa_stack.cpp): the   *)
(* bounded, allocation-free DWARF CFA register-rule store with its entry   *)
(* pool and free list, its per-level bucket tables, its state stack and    *)
(* its iterator.                                                           *)
(*                                                                         *)
(* The object is one record, `stack`, whose fields are the members of the  *)
(* C++ class; every member function is an operator from the object (and    *)
(* the arguments) to the object after the call plus the value returned,    *)
(* and one action of Next per member function applies it.                  *)
(***************************************************************************)
EXTENDS Integers, Sequences, FiniteSets, TLC

(***************************************************************************)
(* Sizes.  The three DWARF_CFA_STACK_* sizes are fixed by the class header *)
(* at build time; they are scaled down here.  MaxRegnum bounds the         *)
(* register numbers the caller passes: one register more than the pool     *)
(* holds, two of them in bucket 0.                                         *)
(***************************************************************************)
DWARF_CFA_STACK_MAX_REGISTERS == 2

DWARF_CFA_STACK_MAX_STATES == 3

DWARF_CFA_STACK_BUCKET_COUNT == 2

MaxRegnum == 2

(* The "no entry" index: UINT8_MAX, above every valid entry index. *)
DWARF_CFA_STACK_INVALID_ENTRY_IDX == 255

(* uint8_t arithmetic of the per-level register count. *)
UINT8_MOD == 256

(* A null dwarf_cfa_reg_entry_t pointer (entries are named by their index). *)
NULL == -1

(* The content of a field that no code has written yet. *)
Uninitialized == -2

RegNums == 0..MaxRegnum

(* The (rule, value) arguments the caller passes. *)
RuleValues == {<<1, -8>>, <<2, 3>>}

(* Caller-side content of an output argument before any call wrote it. *)
Unset == -1

EntryIdx == 0..(DWARF_CFA_STACK_MAX_REGISTERS - 1)

(* For the study of one bucket chain: a pool of ChainPool entries, and a
   caller that passes the first ChainPool register numbers of bucket 0. *)
ChainPool == 3

(* The caller stops calling next() on an iterator after it has returned
   false this many times. *)
MaxFalseNexts == 2

ChainRegNums == {i * DWARF_CFA_STACK_BUCKET_COUNT : i \in 0..(ChainPool - 1)}

Levels == 0..(DWARF_CFA_STACK_MAX_STATES - 1)

Buckets == 0..(DWARF_CFA_STACK_BUCKET_COUNT - 1)

VARIABLES
    stack,      \* the dwarf_cfa_stack object
    iter,       \* the dwarf_cfa_stack_iterator object (live: constructed)
    last,       \* the call made last: its name, arguments, result and outputs
    hung,       \* TRUE once a call has entered a loop it never leaves
    hist        \* what the caller has done so far (history)

vars == <<stack, iter, last, hung, hist>>

----------------------------------------------------------------------------
(* Helpers on the object. *)

bucket_of(regnum) == regnum % DWARF_CFA_STACK_BUCKET_COUNT

(* The object with _entries[idx].next = nxt. *)
SetNext(self, idx, nxt) ==
    [self EXCEPT !.entries[idx].next = nxt]

(* Fault injection: the bucket head written into the table of level 0. *)
SetHead_bottom(self, bucket, idx) ==
    [self EXCEPT !.table_stack[0][bucket] = idx]

(* The object with _table_stack[_table_depth][bucket] = idx. *)
SetHead(self, bucket, idx) ==
    [self EXCEPT !.table_stack[self.table_depth][bucket] = idx]

----------------------------------------------------------------------------
(* dwarf_cfa_stack::dwarf_cfa_stack.  The constructor writes the links, the
   free-list head, the depth and level 0's count and table; regnum, rule and
   value of the entries are left uninitialized.  (So are the counts and
   tables of the levels above 0, which push_state writes before any read.) *)
ConstructWith(max_registers) ==
    LET linked == [i \in 0..(max_registers - 1) |->
                     [regnum |-> Uninitialized, rule |-> Uninitialized,
                      value |-> Uninitialized, next |-> i + 1]]
        entries == [linked EXCEPT
                     ![max_registers - 1].next = DWARF_CFA_STACK_INVALID_ENTRY_IDX]
    IN [entries        |-> entries,
        free_list      |-> 0,
        register_count |-> [l \in Levels |-> IF l = 0 THEN 0 ELSE Uninitialized],
        table_depth    |-> 0,
        table_stack    |-> [l \in Levels |->
                              [b \in Buckets |->
                                 IF l = 0 THEN DWARF_CFA_STACK_INVALID_ENTRY_IDX
                                 ELSE Uninitialized]]]

Construct == ConstructWith(DWARF_CFA_STACK_MAX_REGISTERS)

----------------------------------------------------------------------------
(* Fault injection: push_state that carries the table and the count of the
   level below into the new level instead of clearing them. *)
push_state_copies(self) ==
    IF self.table_depth + 1 = DWARF_CFA_STACK_MAX_STATES
    THEN [self |-> self, ret |-> FALSE]
    ELSE LET d == self.table_depth + 1
         IN [self |-> [self EXCEPT
                         !.table_depth = d,
                         !.register_count[d] = self.register_count[d - 1],
                         !.table_stack[d] = self.table_stack[d - 1]],
             ret |-> TRUE]

(* Fault injection: push_state that refuses one level early. *)
push_state_early(self) ==
    IF self.table_depth + 2 >= DWARF_CFA_STACK_MAX_STATES
    THEN [self |-> self, ret |-> FALSE]
    ELSE LET d == self.table_depth + 1
         IN [self |-> [self EXCEPT
                         !.table_depth = d,
                         !.register_count[d] = 0,
                         !.table_stack[d] =
                             [b \in Buckets |-> DWARF_CFA_STACK_INVALID_ENTRY_IDX]],
             ret |-> TRUE]

(* dwarf_cfa_stack::push_state.  (Its PLCF_ASSERT, _table_depth+1 <=
   DWARF_CFA_STACK_MAX_STATES, is stated by C9 for every call.) *)
push_state(self) ==
    IF self.table_depth + 1 = DWARF_CFA_STACK_MAX_STATES
    THEN [self |-> self, ret |-> FALSE]
    ELSE LET d == self.table_depth + 1
         IN [self |-> [self EXCEPT
                         !.table_depth = d,
                         !.register_count[d] = 0,
                         !.table_stack[d] =
                             [b \in Buckets |-> DWARF_CFA_STACK_INVALID_ENTRY_IDX]],
             ret |-> TRUE]

(* Fault injection: pop_state that reinitializes the level it returns to. *)
pop_state_clears(self) ==
    IF self.table_depth = 0
    THEN [self |-> self, ret |-> FALSE]
    ELSE LET d == self.table_depth - 1
         IN [self |-> [self EXCEPT
                         !.table_depth = d,
                         !.register_count[d] = 0,
                         !.table_stack[d] =
                             [b \in Buckets |-> DWARF_CFA_STACK_INVALID_ENTRY_IDX]],
             ret |-> TRUE]

(* Fault injection: pop_state that zeroes the count of the level it leaves. *)
pop_state_discards(self) ==
    IF self.table_depth = 0
    THEN [self |-> self, ret |-> FALSE]
    ELSE [self |-> [self EXCEPT !.table_depth = self.table_depth - 1,
                                !.register_count[self.table_depth] = 0],
          ret |-> TRUE]

(* Fault injection: pop_state that puts the first entry of bucket 0 of the
   level it leaves back on the free list. *)
pop_state_reclaims(self) ==
    IF self.table_depth = 0
    THEN [self |-> self, ret |-> FALSE]
    ELSE LET head == self.table_stack[self.table_depth][0]
             lower == [self EXCEPT !.table_depth = self.table_depth - 1]
         IN [self |-> IF head = DWARF_CFA_STACK_INVALID_ENTRY_IDX
                      THEN lower
                      ELSE [SetNext(lower, head, self.free_list)
                              EXCEPT !.free_list = head],
             ret |-> TRUE]

(* dwarf_cfa_stack::pop_state *)
pop_state(self) ==
    IF self.table_depth = 0
    THEN [self |-> self, ret |-> FALSE]
    ELSE [self |-> [self EXCEPT !.table_depth = self.table_depth - 1],
          ret |-> TRUE]

----------------------------------------------------------------------------
(* dwarf_cfa_stack::set_register *)

(* Fault injection: the loop of set_register without its match test. *)
RECURSIVE set_walk_no_match(_, _, _, _, _)
set_walk_no_match(self, regnum, parent_idx, parent, iters) ==
    IF parent_idx = DWARF_CFA_STACK_INVALID_ENTRY_IDX
    THEN [found |-> FALSE, parent |-> parent, iters |-> iters]
    ELSE IF self.entries[parent_idx].next = DWARF_CFA_STACK_INVALID_ENTRY_IDX
    THEN [found |-> FALSE, parent |-> parent_idx, iters |-> iters + 1]
    ELSE set_walk_no_match(self, regnum, self.entries[parent_idx].next,
                           parent_idx, iters + 1)

(* Fault injection: the loop of set_register comparing register numbers from
   the second entry of the chain on. *)
RECURSIVE set_walk_skips_head(_, _, _, _, _)
set_walk_skips_head(self, regnum, parent_idx, parent, iters) ==
    IF parent_idx = DWARF_CFA_STACK_INVALID_ENTRY_IDX
    THEN [found |-> FALSE, parent |-> parent, iters |-> iters]
    ELSE IF parent # NULL /\ self.entries[parent_idx].regnum = regnum
    THEN [found |-> TRUE, parent |-> parent_idx, iters |-> iters + 1]
    ELSE IF self.entries[parent_idx].next = DWARF_CFA_STACK_INVALID_ENTRY_IDX
    THEN [found |-> FALSE, parent |-> parent_idx, iters |-> iters + 1]
    ELSE set_walk_skips_head(self, regnum, self.entries[parent_idx].next,
                             parent_idx, iters + 1)

(* The loop of set_register: the entry found for regnum, or else the last
   element of the chain (NULL for an empty chain), and the number of times
   the loop body ran. *)
RECURSIVE set_walk(_, _, _, _, _)
set_walk(self, regnum, parent_idx, parent, iters) ==
    IF parent_idx = DWARF_CFA_STACK_INVALID_ENTRY_IDX
    THEN [found |-> FALSE, parent |-> parent, iters |-> iters]
    ELSE IF self.entries[parent_idx].regnum = regnum
    THEN [found |-> TRUE, parent |-> parent_idx, iters |-> iters + 1]
    ELSE IF self.entries[parent_idx].next = DWARF_CFA_STACK_INVALID_ENTRY_IDX
    THEN [found |-> FALSE, parent |-> parent_idx, iters |-> iters + 1]
    ELSE set_walk(self, regnum, self.entries[parent_idx].next, parent_idx, iters + 1)

(* set_register, an entry for regnum exists: it is overwritten in place. *)
set_update(self, entry_idx, rule, value) ==
    [self EXCEPT !.entries[entry_idx].value = value,
                 !.entries[entry_idx].rule = rule]

(* Fault injection: set_insert that leaves the free-list head where it is. *)
set_insert_keeps_free(self, regnum, rule, value, parent) ==
    IF self.free_list = DWARF_CFA_STACK_INVALID_ENTRY_IDX
    THEN [self |-> self, ret |-> FALSE]
    ELSE LET entry_idx == self.free_list
             taken == [self EXCEPT
                         !.entries[entry_idx] =
                             [regnum |-> regnum, rule |-> rule, value |-> value,
                              next |-> DWARF_CFA_STACK_INVALID_ENTRY_IDX]]
             linked == IF parent = NULL
                       THEN SetHead(taken, bucket_of(regnum), entry_idx)
                       ELSE SetNext(taken, parent, entry_idx)
         IN [self |-> [linked EXCEPT
                         !.register_count[self.table_depth] = (@ + 1) % UINT8_MOD],
             ret |-> TRUE]

(* Fault injection: set_insert that counts the register before it looks for
   a free entry. *)
set_insert_counts_first(self, regnum, rule, value, parent) ==
    LET counted == [self EXCEPT
                      !.register_count[self.table_depth] = (@ + 1) % UINT8_MOD]
    IN IF self.free_list = DWARF_CFA_STACK_INVALID_ENTRY_IDX
       THEN [self |-> counted, ret |-> FALSE]
       ELSE LET entry_idx == self.free_list
                taken == [counted EXCEPT
                            !.free_list = self.entries[entry_idx].next,
                            !.entries[entry_idx] =
                                [regnum |-> regnum, rule |-> rule, value |-> value,
                                 next |-> DWARF_CFA_STACK_INVALID_ENTRY_IDX]]
            IN [self |-> IF parent = NULL
                         THEN SetHead(taken, bucket_of(regnum), entry_idx)
                         ELSE SetNext(taken, parent, entry_idx),
                ret |-> TRUE]

(* Fault injection: set_insert that links the new entry in front of the
   chain. *)
set_insert_in_front(self, regnum, rule, value, parent) ==
    IF self.free_list = DWARF_CFA_STACK_INVALID_ENTRY_IDX
    THEN [self |-> self, ret |-> FALSE]
    ELSE LET entry_idx == self.free_list
             taken == [self EXCEPT
                         !.free_list = self.entries[entry_idx].next,
                         !.entries[entry_idx] =
                             [regnum |-> regnum, rule |-> rule, value |-> value,
                              next |-> self.table_stack[self.table_depth]
                                                       [bucket_of(regnum)]]]
         IN [self |-> [SetHead(taken, bucket_of(regnum), entry_idx) EXCEPT
                         !.register_count[self.table_depth] = (@ + 1) % UINT8_MOD],
             ret |-> TRUE]

(* set_register, no entry for regnum exists: the head of the free list is
   taken, initialized and linked behind `parent` (NULL: as the bucket head).
   With an empty free list nothing is written and the call fails. *)
set_insert(self, regnum, rule, value, parent) ==
    IF self.free_list = DWARF_CFA_STACK_INVALID_ENTRY_IDX
    THEN [self |-> self, ret |-> FALSE]
    ELSE LET entry_idx == self.free_list
             taken == [self EXCEPT
                         !.free_list = self.entries[entry_idx].next,
                         !.entries[entry_idx] =
                             [regnum |-> regnum, rule |-> rule, value |-> value,
                              next |-> DWARF_CFA_STACK_INVALID_ENTRY_IDX]]
             linked == IF parent = NULL
                       THEN SetHead(taken, bucket_of(regnum), entry_idx)
                       ELSE SetNext(taken, parent, entry_idx)
         IN [self |-> [linked EXCEPT
                         !.register_count[self.table_depth] = (@ + 1) % UINT8_MOD],
             ret |-> TRUE]

set_register(self, regnum, rule, value) ==
    LET w == set_walk(self, regnum,
                      self.table_stack[self.table_depth][bucket_of(regnum)], NULL, 0)
        r == set_insert(self, regnum, rule, value, w.parent)
    IN IF w.found
       THEN [self |-> set_update(self, w.parent, rule, value), ret |-> TRUE,
             iters |-> w.iters]
       ELSE [self |-> r.self, ret |-> r.ret, iters |-> w.iters]

----------------------------------------------------------------------------
(* dwarf_cfa_stack::get_register_rule *)
(* Fault injection: the loop of get_register_rule giving up at the first
   entry that holds another register. *)
get_walk_first(self, regnum, entry_idx, iters) ==
    IF entry_idx = DWARF_CFA_STACK_INVALID_ENTRY_IDX
    THEN [ret |-> FALSE, iters |-> iters]
    ELSE IF self.entries[entry_idx].regnum # regnum
    THEN [ret |-> FALSE, iters |-> iters + 1]
    ELSE [ret |-> TRUE, iters |-> iters + 1,
          rule |-> self.entries[entry_idx].rule,
          value |-> self.entries[entry_idx].value]

RECURSIVE get_walk(_, _, _, _)
get_walk(self, regnum, entry_idx, iters) ==
    IF entry_idx = DWARF_CFA_STACK_INVALID_ENTRY_IDX
    THEN [ret |-> FALSE, iters |-> iters]
    ELSE IF self.entries[entry_idx].regnum # regnum
    THEN IF self.entries[entry_idx].next = DWARF_CFA_STACK_INVALID_ENTRY_IDX
         THEN [ret |-> FALSE, iters |-> iters + 1]
         ELSE get_walk(self, regnum, self.entries[entry_idx].next, iters + 1)
    ELSE [ret |-> TRUE, iters |-> iters + 1,
          rule |-> self.entries[entry_idx].rule,
          value |-> self.entries[entry_idx].value]

get_register_rule(self, regnum) ==
    get_walk(self, regnum, self.table_stack[self.table_depth][bucket_of(regnum)], 0)

(* dwarf_cfa_stack::get_register_count *)
get_register_count(self) == self.register_count[self.table_depth]

----------------------------------------------------------------------------
(* dwarf_cfa_stack::remove_register *)

(* Fault injection: the test of remove_register comparing buckets instead of
   register numbers. *)
regnum_differs_bucket(self, entry_idx, regnum, garbage) ==
    IF self.entries[entry_idx].regnum = Uninitialized
    THEN entry_idx \notin garbage
    ELSE bucket_of(self.entries[entry_idx].regnum) # bucket_of(regnum)

(* The test `entry->regnum != regnum`.  The read of a regnum that no code
   has written yields any value: `garbage` is the set of entries whose
   unwritten regnum compares equal to the argument in this call. *)
regnum_differs(self, entry_idx, regnum, garbage) ==
    IF self.entries[entry_idx].regnum = Uninitialized
    THEN entry_idx \notin garbage
    ELSE self.entries[entry_idx].regnum # regnum

(* The entries whose regnum no code has written. *)
UninitializedEntries(self) ==
    {i \in DOMAIN self.entries : self.entries[i].regnum = Uninitialized}

(* Fault injection: remove_register cutting the chain behind the entry that
   precedes the removed one. *)
RECURSIVE remove_loop_cuts(_, _, _, _, _, _, _, _)
remove_loop_cuts(self, regnum, garbage, bucket, entry_idx, entry, seen, iters) ==
    LET here == <<[i \in DOMAIN self.entries |-> self.entries[i].next],
                  self.free_list,
                  self.table_stack[self.table_depth][bucket], entry_idx, entry>>
    IN IF entry_idx = DWARF_CFA_STACK_INVALID_ENTRY_IDX
       THEN [self |-> self, hung |-> FALSE, iters |-> iters]
       ELSE IF here \in seen
       THEN [self |-> self, hung |-> TRUE, iters |-> iters]
       ELSE IF regnum_differs(self, entry_idx, regnum, garbage)
       THEN remove_loop_cuts(self, regnum, garbage, bucket,
                             self.entries[entry_idx].next,
                             entry_idx, seen \cup {here}, iters + 1)
       ELSE LET prev == entry
                unlinked == IF prev # NULL
                            THEN SetNext(self, prev, DWARF_CFA_STACK_INVALID_ENTRY_IDX)
                            ELSE SetHead(self, bucket, self.entries[entry_idx].next)
                freed == [SetNext(unlinked, entry_idx, unlinked.free_list)
                            EXCEPT !.free_list = entry_idx,
                                   !.register_count[self.table_depth] =
                                       (@ - 1) % UINT8_MOD]
            IN remove_loop_cuts(freed, regnum, garbage, bucket,
                                freed.entries[entry_idx].next,
                                entry_idx, seen \cup {here}, iters + 1)

(* The loop of remove_register, one body execution per unfolding.  `entry`
   is the entry pointer left by the previous body execution (NULL before the
   first), `seen` the loop states already passed: the loop's control reads
   only the links, the bucket head, the free-list head and the two locals,
   so a loop state met twice is a loop that never ends. *)
RECURSIVE remove_loop(_, _, _, _, _, _, _, _)
remove_loop(self, regnum, garbage, bucket, entry_idx, entry, seen, iters) ==
    LET here == <<[i \in DOMAIN self.entries |-> self.entries[i].next],
                  self.free_list,
                  self.table_stack[self.table_depth][bucket], entry_idx, entry>>
    IN IF entry_idx = DWARF_CFA_STACK_INVALID_ENTRY_IDX
       THEN [self |-> self, hung |-> FALSE, iters |-> iters]
       ELSE IF here \in seen
       THEN [self |-> self, hung |-> TRUE, iters |-> iters]
       ELSE IF regnum_differs(self, entry_idx, regnum, garbage)
       THEN remove_loop(self, regnum, garbage, bucket, self.entries[entry_idx].next,
                        entry_idx, seen \cup {here}, iters + 1)
       ELSE LET prev == entry
                unlinked == IF prev # NULL
                            THEN SetNext(self, prev, self.entries[entry_idx].next)
                            ELSE SetHead(self, bucket, self.entries[entry_idx].next)
                freed == [SetNext(unlinked, entry_idx, unlinked.free_list)
                            EXCEPT !.free_list = entry_idx,
                                   !.register_count[self.table_depth] =
                                       (@ - 1) % UINT8_MOD]
            IN remove_loop(freed, regnum, garbage, bucket,
                           freed.entries[entry_idx].next,
                           entry_idx, seen \cup {here}, iters + 1)

remove_register(self, regnum, garbage) ==
    remove_loop(self, regnum, garbage, bucket_of(regnum),
                self.table_stack[self.table_depth][bucket_of(regnum)], NULL, {}, 0)

----------------------------------------------------------------------------
(* dwarf_cfa_stack_iterator *)

(* dwarf_cfa_stack_iterator::dwarf_cfa_stack_iterator *)
iterator_construct ==
    [live |-> TRUE, bucket_idx |-> 0,
     cur_entry_idx |-> DWARF_CFA_STACK_INVALID_ENTRY_IDX]

(* No iterator object: none was constructed since the store last changed. *)
NoIterator ==
    [live |-> FALSE, bucket_idx |-> 0,
     cur_entry_idx |-> DWARF_CFA_STACK_INVALID_ENTRY_IDX]

(* Fault injection: the for loop of next() stopping one bucket early. *)
RECURSIVE next_scan_short(_, _, _)
next_scan_short(self, bucket_idx, iters) ==
    IF bucket_idx < DWARF_CFA_STACK_BUCKET_COUNT - 1
    THEN IF self.table_stack[self.table_depth][bucket_idx]
              # DWARF_CFA_STACK_INVALID_ENTRY_IDX
         THEN [bucket_idx |-> bucket_idx,
               cur_entry_idx |-> self.table_stack[self.table_depth][bucket_idx],
               iters |-> iters + 1]
         ELSE next_scan_short(self, bucket_idx + 1, iters + 1)
    ELSE [bucket_idx |-> bucket_idx,
          cur_entry_idx |-> DWARF_CFA_STACK_INVALID_ENTRY_IDX,
          iters |-> iters]

(* Fault injection: the for loop of next() starting over at bucket 0 when it
   has passed the last bucket. *)
RECURSIVE next_scan_wraps(_, _, _)
next_scan_wraps(self, bucket_idx, iters) ==
    IF bucket_idx < DWARF_CFA_STACK_BUCKET_COUNT
    THEN IF self.table_stack[self.table_depth][bucket_idx]
              # DWARF_CFA_STACK_INVALID_ENTRY_IDX
         THEN [bucket_idx |-> bucket_idx,
               cur_entry_idx |-> self.table_stack[self.table_depth][bucket_idx],
               iters |-> iters + 1]
         ELSE next_scan_wraps(self, bucket_idx + 1, iters + 1)
    ELSE [bucket_idx |-> 0,
          cur_entry_idx |-> DWARF_CFA_STACK_INVALID_ENTRY_IDX,
          iters |-> iters]

(* The for loop of next(): the first bucket at or after bucket_idx whose
   head is a valid entry, and the number of times the loop body ran. *)
RECURSIVE next_scan(_, _, _)
next_scan(self, bucket_idx, iters) ==
    IF bucket_idx < DWARF_CFA_STACK_BUCKET_COUNT
    THEN IF self.table_stack[self.table_depth][bucket_idx]
              # DWARF_CFA_STACK_INVALID_ENTRY_IDX
         THEN [bucket_idx |-> bucket_idx,
               cur_entry_idx |-> self.table_stack[self.table_depth][bucket_idx],
               iters |-> iters + 1]
         ELSE next_scan(self, bucket_idx + 1, iters + 1)
    ELSE [bucket_idx |-> bucket_idx,
          cur_entry_idx |-> DWARF_CFA_STACK_INVALID_ENTRY_IDX,
          iters |-> iters]

(* dwarf_cfa_stack_iterator::next *)
iterator_next(it, self) ==
    LET stepped ==
            IF it.cur_entry_idx # DWARF_CFA_STACK_INVALID_ENTRY_IDX
            THEN LET nxt == self.entries[it.cur_entry_idx].next
                 IN [live |-> TRUE,
                     bucket_idx |-> IF nxt = DWARF_CFA_STACK_INVALID_ENTRY_IDX
                                    THEN it.bucket_idx + 1 ELSE it.bucket_idx,
                     cur_entry_idx |-> nxt]
            ELSE it
        scanned ==
            IF stepped.cur_entry_idx = DWARF_CFA_STACK_INVALID_ENTRY_IDX
            THEN next_scan(self, stepped.bucket_idx, 0)
            ELSE [bucket_idx |-> stepped.bucket_idx,
                  cur_entry_idx |-> stepped.cur_entry_idx, iters |-> 0]
        after == [live |-> TRUE, bucket_idx |-> scanned.bucket_idx,
                  cur_entry_idx |-> scanned.cur_entry_idx]
    IN IF scanned.cur_entry_idx = DWARF_CFA_STACK_INVALID_ENTRY_IDX
       THEN [iter |-> after, ret |-> FALSE, iters |-> scanned.iters]
       ELSE [iter |-> after, ret |-> TRUE, iters |-> scanned.iters,
             regnum |-> self.entries[scanned.cur_entry_idx].regnum,
             rule |-> self.entries[scanned.cur_entry_idx].rule,
             value |-> self.entries[scanned.cur_entry_idx].value]

----------------------------------------------------------------------------
(* Reading the structure. *)

(* The entries of the chain that starts at entry index idx, in chain order.
   `fuel` stops the walk of a chain that closes on itself. *)
RECURSIVE Chain(_, _, _)
Chain(self, idx, fuel) ==
    IF idx = DWARF_CFA_STACK_INVALID_ENTRY_IDX \/ fuel = 0 THEN <<>>
    ELSE <<idx>> \o Chain(self, self.entries[idx].next, fuel - 1)

ChainOf(self, idx) == Chain(self, idx, Cardinality(DOMAIN self.entries) + 1)

(* The chain of `bucket` at `level`, and that of the free list. *)
BucketChain(self, level, bucket) == ChainOf(self, self.table_stack[level][bucket])

FreeChain(self) == ChainOf(self, self.free_list)

Range(seq) == {seq[i] : i \in DOMAIN seq}

(* The entries reachable from the table of `level`. *)
EntriesAt(self, level) ==
    UNION {Range(BucketChain(self, level, b)) : b \in Buckets}

(* The rule set at the current level as the caller sees it: the (regnum,
   rule, value) triples for which get_register_rule succeeds. *)
RuleSet(self) ==
    {<<r, get_register_rule(self, r).rule, get_register_rule(self, r).value>> :
        r \in {q \in {self.entries[e].regnum : e \in DOMAIN self.entries} :
                 q # Uninitialized /\ get_register_rule(self, q).ret}}

(* The same, for the table of `level`. *)
RuleSetAt(self, level) == RuleSet([self EXCEPT !.table_depth = level])

(* regnum is bound at the current level: get_register_rule finds it. *)
Bound(self, regnum) == get_register_rule(self, regnum).ret

(* The table of the level above the current one holds an entry. *)
StaleAbove(self) ==
    /\ self.table_depth + 1 \in Levels
    /\ \E b \in Buckets :
          self.table_stack[self.table_depth + 1][b] \in DOMAIN self.entries

----------------------------------------------------------------------------
(* The calls.  The caller's output arguments hold Unset before each call;
   last.regnum, last.rule and last.value are the arguments of a set/remove
   call and the output arguments after a get/next call.  last.iters is the
   number of loop-body executions of the call, last.chain the length of the
   bucket chain it started on.  The caller keeps to the iterator's contract:
   between constructing an iterator and dropping it, it calls only next().
   last.present: before a set/get/remove call, the register was bound at the
   current level; before a push_state call, the table of the level above
   still held an entry of an earlier occupancy. *)

Call(op, regnum, rule, value, ret, iters, chain, present) ==
    [op |-> op, regnum |-> regnum, rule |-> rule, value |-> value, ret |-> ret,
     iters |-> iters, chain |-> chain, present |-> present]

(* hist.only_sets: the caller has made nothing but set_register calls, each
   for another register number; hist.called: those register numbers.
   hist.saved[l], for a level l below the current depth: the rule set and
   register count of level l when push_state left it.  hist.yielded: what
   the iterator has produced.  hist.recent[l][r], for a level l in use: the
   set of the (rule, value) of the set_register call for r, if that is the
   call made last for r at level l since the level was entered and it
   succeeded, and the empty set otherwise.  hist.leaked: the entries that
   were reachable from the table of a level when pop_state left that level.
   hist.cycles: the caller's progress through cycles of push_state,
   set_register of one register not bound, pop_state, all three successful:
   `phase` is the number of calls of the cycle under way, `done` the number
   of cycles completed, `only` says that the caller has done nothing but
   such cycles since construction.  hist.order[l][b], for a level l in use:
   the registers of bucket b bound at level l, in the order of the
   set_register calls that bound them (a call for a bound register moves
   nothing, remove_register takes the register out).  hist.false_nexts: the
   number of next() calls on the iterator that returned false. *)
NoneSaved == [rules |-> {}, count |-> 0]

NoneRecent == [r \in RegNums \cup ChainRegNums |-> {}]

NoneOrdered == [b \in Buckets |-> <<>>]

(* The sequence seq without the register regnum. *)
Without(seq, regnum) == SelectSeq(seq, LAMBDA q : q # regnum)

(* hist.cycles after a call that is the `step`-th call of a cycle (0: a call
   that belongs to no cycle). *)
CycleStep(c, step) ==
    IF step = 0 THEN [phase |-> 0, done |-> c.done, only |-> FALSE]
    ELSE IF step = 1 THEN [phase |-> 1, done |-> c.done,
                           only |-> c.only /\ c.phase = 0]
    ELSE IF step = c.phase + 1
    THEN [phase |-> step % 3, done |-> IF step = 3 THEN c.done + 1 ELSE c.done,
          only |-> c.only]
    ELSE [phase |-> 0, done |-> c.done, only |-> FALSE]

NoSets(h) == [h EXCEPT !.only_sets = FALSE, !.called = {}, !.yielded = <<>>,
                       !.false_nexts = 0]

(* The length of the chain a set/get/remove call for regnum starts on. *)
TargetChainLen(self, regnum) ==
    Len(BucketChain(self, self.table_depth, bucket_of(regnum)))

Init ==
    /\ stack = Construct
    /\ iter = NoIterator
    /\ last = Call("construct", Unset, Unset, Unset, TRUE, 0, 0, FALSE)
    /\ hung = FALSE
    /\ hist = [only_sets |-> TRUE, called |-> {},
               saved |-> [l \in Levels |-> NoneSaved],
               yielded |-> <<>>,
               recent |-> [l \in Levels |-> NoneRecent],
               leaked |-> {},
               cycles |-> [phase |-> 0, done |-> 0, only |-> TRUE],
               order |-> [l \in Levels |-> NoneOrdered],
               false_nexts |-> 0]

SetRegister(regnum, rule, value) ==
    /\ ~hung
    /\ LET r == set_register(stack, regnum, rule, value)
       IN /\ stack' = r.self
          /\ last' = Call("set_register", regnum, rule, value, r.ret, r.iters,
                          TargetChainLen(stack, regnum), Bound(stack, regnum))
    /\ hist' = [(IF hist.only_sets /\ regnum \notin hist.called
                 THEN [hist EXCEPT !.called = @ \cup {regnum}]
                 ELSE NoSets(hist))
                  EXCEPT !.recent[stack.table_depth][regnum] =
                      IF set_register(stack, regnum, rule, value).ret
                      THEN {<<rule, value>>} ELSE {},
                         !.cycles = CycleStep(@,
                      IF /\ set_register(stack, regnum, rule, value).ret
                         /\ ~Bound(stack, regnum)
                      THEN 2 ELSE 0),
                         !.order[stack.table_depth][bucket_of(regnum)] =
                      IF /\ set_register(stack, regnum, rule, value).ret
                         /\ ~Bound(stack, regnum)
                      THEN Append(@, regnum) ELSE @]
    /\ iter' = NoIterator
    /\ UNCHANGED hung

GetRegisterRule(regnum) ==
    /\ ~hung
    /\ LET r == get_register_rule(stack, regnum)
       IN last' = Call("get_register_rule", regnum,
                       IF r.ret THEN r.rule ELSE Unset,
                       IF r.ret THEN r.value ELSE Unset, r.ret, r.iters,
                       TargetChainLen(stack, regnum), Bound(stack, regnum))
    /\ hist' = [NoSets(hist) EXCEPT !.cycles = CycleStep(@, 0)]
    /\ iter' = NoIterator
    /\ UNCHANGED <<stack, hung>>

RemoveRegister(regnum, garbage) ==
    /\ ~hung
    /\ LET r == remove_register(stack, regnum, garbage)
       IN /\ stack' = r.self
          /\ hung' = r.hung
          /\ last' = Call("remove_register", regnum, Unset, Unset, TRUE, r.iters,
                          TargetChainLen(stack, regnum), Bound(stack, regnum))
    /\ hist' = [NoSets(hist) EXCEPT
                  !.recent[stack.table_depth][regnum] = {},
                  !.cycles = CycleStep(@, 0),
                  !.order[stack.table_depth][bucket_of(regnum)] = Without(@, regnum)]
    /\ iter' = NoIterator

PushState ==
    /\ ~hung
    /\ LET r == push_state(stack)
       IN /\ stack' = r.self
          /\ last' = Call("push_state", Unset, Unset, Unset, r.ret, 0, 0,
                          StaleAbove(stack))
          /\ hist' = IF r.ret
                     THEN [NoSets(hist) EXCEPT
                             !.saved[stack.table_depth] =
                                 [rules |-> RuleSet(stack),
                                  count |-> get_register_count(stack)],
                             !.recent[r.self.table_depth] = NoneRecent,
                             !.order[r.self.table_depth] = NoneOrdered,
                             !.cycles = CycleStep(@, 1)]
                     ELSE [NoSets(hist) EXCEPT !.cycles = CycleStep(@, 0)]
    /\ iter' = NoIterator
    /\ UNCHANGED hung

PopState ==
    /\ ~hung
    /\ LET r == pop_state(stack)
       IN /\ stack' = r.self
          /\ last' = Call("pop_state", Unset, Unset, Unset, r.ret, 0, 0, FALSE)
          /\ hist' = [NoSets(hist) EXCEPT
                         !.saved[r.self.table_depth] = NoneSaved,
                         !.recent[r.self.table_depth + 1] =
                             IF r.ret THEN NoneRecent ELSE @,
                         !.order[r.self.table_depth + 1] =
                             IF r.ret THEN NoneOrdered ELSE @,
                         !.leaked =
                             IF r.ret THEN @ \cup EntriesAt(stack, stack.table_depth)
                             ELSE @,
                         !.cycles = CycleStep(@, IF r.ret THEN 3 ELSE 0)]
    /\ iter' = NoIterator
    /\ UNCHANGED hung

IteratorConstruct ==
    /\ ~hung
    /\ iter' = iterator_construct
    /\ last' = Call("iterator", Unset, Unset, Unset, TRUE, 0, 0, FALSE)
    /\ hist' = [NoSets(hist) EXCEPT !.cycles = CycleStep(@, 0)]
    /\ UNCHANGED <<stack, hung>>

IteratorNext ==
    /\ ~hung
    /\ iter.live
    /\ hist.false_nexts < MaxFalseNexts
    /\ LET r == iterator_next(iter, stack)
       IN /\ iter' = r.iter
          /\ last' = IF r.ret
                     THEN Call("next", r.regnum, r.rule, r.value, TRUE, r.iters, 0, FALSE)
                     ELSE Call("next", Unset, Unset, Unset, FALSE, r.iters, 0, FALSE)
          /\ hist' = IF r.ret
                     THEN [hist EXCEPT
                             !.yielded = Append(@, <<r.regnum, r.rule, r.value>>),
                             !.cycles = CycleStep(@, 0)]
                     ELSE [hist EXCEPT !.cycles = CycleStep(@, 0),
                                       !.false_nexts = @ + 1]
    /\ UNCHANGED <<stack, hung>>

Next ==
    \/ \E regnum \in RegNums, rv \in RuleValues : SetRegister(regnum, rv[1], rv[2])
    \/ \E regnum \in RegNums : GetRegisterRule(regnum)
    \/ \E regnum \in RegNums, garbage \in SUBSET UninitializedEntries(stack) :
          RemoveRegister(regnum, garbage)
    \/ PushState
    \/ PopState
    \/ IteratorConstruct
    \/ IteratorNext

Spec == Init /\ [][Next]_vars

(* The object built with a pool of ChainPool entries, and a caller that
   works on the chain of bucket 0 of level 0. *)
InitChain ==
    /\ stack = ConstructWith(ChainPool)
    /\ iter = NoIterator
    /\ last = Call("construct", Unset, Unset, Unset, TRUE, 0, 0, FALSE)
    /\ hung = FALSE
    /\ hist = [only_sets |-> TRUE, called |-> {},
               saved |-> [l \in Levels |-> NoneSaved],
               yielded |-> <<>>,
               recent |-> [l \in Levels |-> NoneRecent],
               leaked |-> {},
               cycles |-> [phase |-> 0, done |-> 0, only |-> TRUE],
               order |-> [l \in Levels |-> NoneOrdered],
               false_nexts |-> 0]

NextChain ==
    \/ \E regnum \in ChainRegNums, rv \in RuleValues :
          SetRegister(regnum, rv[1], rv[2])
    \/ \E regnum \in ChainRegNums : GetRegisterRule(regnum)
    \/ \E regnum \in ChainRegNums, garbage \in SUBSET UninitializedEntries(stack) :
          RemoveRegister(regnum, garbage)
    \/ IteratorConstruct
    \/ IteratorNext

SpecChain == InitChain /\ [][NextChain]_vars

----------------------------------------------------------------------------
(* Well-formedness of what the code reads: at every level in use, the table
   and the count are written, every chain ends, and no entry on a chain has
   an unwritten field. *)
LiveLevels(self) == 0..self.table_depth

WellFormed ==
    ~hung =>
       /\ stack.table_depth \in Levels
       /\ \A l \in LiveLevels(stack) :
             /\ stack.register_count[l] \in 0..DWARF_CFA_STACK_MAX_REGISTERS
             /\ \A b \in Buckets :
                   /\ stack.table_stack[l][b]
                         \in EntryIdx \cup {DWARF_CFA_STACK_INVALID_ENTRY_IDX}
                   /\ Len(BucketChain(stack, l, b)) <= DWARF_CFA_STACK_MAX_REGISTERS
                   /\ \A e \in Range(BucketChain(stack, l, b)) :
                         /\ stack.entries[e].regnum \in RegNums
                         /\ stack.entries[e].rule # Uninitialized
                         /\ stack.entries[e].value # Uninitialized
       /\ Len(FreeChain(stack)) <= DWARF_CFA_STACK_MAX_REGISTERS

----------------------------------------------------------------------------
(* C1.  Save/restore round trip: a successful pop_state exposes, at the
   level it returns to, exactly the rule set (registers, rules, values) and
   the register count that the level had when the matching push_state left
   it, whatever was set, removed, pushed and popped in between. *)
C1_SaveRestoreRoundTrip ==
    [][(last'.op = "pop_state" /\ last'.ret) =>
          /\ RuleSet(stack') = hist.saved[stack'.table_depth].rules
          /\ get_register_count(stack') = hist.saved[stack'.table_depth].count]_vars

(* A pop_state back to a level that holds registers, from a level at which
   registers were set after the push. *)
C1_Witness ==
    /\ last.op = "pop_state" /\ last.ret
    /\ RuleSet(stack) # {}
    /\ StaleAbove(stack)

(* C2.  Removal correctness: remove_register(r) of a register bound at the
   current level returns, r is no longer found, and the register count of
   the level is one less than before the call. *)
C2_RemovalCorrect ==
    [][(last'.op = "remove_register" /\ last'.present) =>
          /\ ~hung'
          /\ ~Bound(stack', last'.regnum)
          /\ get_register_count(stack') = get_register_count(stack) - 1]_vars

(* C3.  Every operation terminates: a set_register, get_register_rule or
   remove_register call returns after at most as many loop-body executions
   as the bucket chain it starts on has entries, and a next() call after at
   most as many as there are buckets. *)
C3_LoopsBounded ==
    /\ ~hung
    /\ last.op \in {"set_register", "get_register_rule", "remove_register"}
          => last.iters <= last.chain
    /\ last.op = "next" => last.iters <= DWARF_CFA_STACK_BUCKET_COUNT

----------------------------------------------------------------------------
(* The number of places an entry is reachable from: the free list and the
   bucket chains of the levels in use, each occurrence counted. *)
Occurrences(seq, e) == Cardinality({i \in DOMAIN seq : seq[i] = e})

Places(self, e) ==
    LET chains == {<<l, b>> : l \in LiveLevels(self), b \in Buckets}
        RECURSIVE Sum(_)
        Sum(S) == IF S = {} THEN 0
                  ELSE LET c == CHOOSE x \in S : TRUE
                       IN Occurrences(BucketChain(self, c[1], c[2]), e)
                          + Sum(S \ {c})
    IN Occurrences(FreeChain(self), e) + Sum(chains)

(* C4, as stated.  Pool partition: every entry is reachable from exactly one
   of the free list and the bucket chains of the levels of the state stack. *)
C4_PoolPartition ==
    ~hung => \A e \in EntryIdx : Places(stack, e) = 1

(* C4, amended.  Every entry is reachable from at most one of the free list
   and the bucket chains of the levels in use, and at most once; it may be
   reachable from neither (an entry still bound at a level when pop_state
   left that level). *)
C4_PoolDisjoint ==
    ~hung => \A e \in EntryIdx : Places(stack, e) <= 1

(* An entry set at a level that was popped is reachable from nothing, while
   another is on a chain of a level in use. *)
C4_Witness ==
    /\ ~hung
    /\ \E e \in EntryIdx : Places(stack, e) = 0
    /\ \E e \in EntryIdx : Places(stack, e) = 1 /\ Occurrences(FreeChain(stack), e) = 0

----------------------------------------------------------------------------
(* C5.  Capacity failure without mutation: set_register of a register not
   bound at the current level, with the free list empty, returns false and
   changes nothing of the object; and from a fresh store, with set_register
   calls for distinct registers only, exactly the first
   DWARF_CFA_STACK_MAX_REGISTERS calls succeed. *)
C5_CapacityFailure ==
    [][/\ (/\ last'.op = "set_register"
           /\ stack.free_list = DWARF_CFA_STACK_INVALID_ENTRY_IDX
           /\ ~last'.present)
          => (~last'.ret /\ stack' = stack)
       /\ (last'.op = "set_register" /\ hist'.only_sets)
          => (last'.ret <=>
                Cardinality(hist'.called) <= DWARF_CFA_STACK_MAX_REGISTERS)]_vars

(* The call after the pool was filled by calls for distinct registers. *)
C5_Witness ==
    /\ last.op = "set_register" /\ ~last.ret /\ ~last.present
    /\ hist.only_sets
    /\ Cardinality(hist.called) = DWARF_CFA_STACK_MAX_REGISTERS + 1
    /\ stack.free_list = DWARF_CFA_STACK_INVALID_ENTRY_IDX

(* The entries on the chains of the current level that hold regnum. *)
EntriesFor(self, regnum) ==
    {e \in EntryIdx :
        /\ \E b \in Buckets : e \in Range(BucketChain(self, self.table_depth, b))
        /\ self.entries[e].regnum = regnum}

(* C6.  Idempotent update: set_register of a register already bound at the
   current level returns true, also with the free list empty; it takes no
   entry from the free list, leaves the register count unchanged, and leaves
   exactly one entry for the register at the level, with the new rule and
   value. *)
C6_IdempotentUpdate ==
    [][(last'.op = "set_register" /\ last'.present) =>
          /\ last'.ret
          /\ stack'.free_list = stack.free_list
          /\ FreeChain(stack') = FreeChain(stack)
          /\ get_register_count(stack') = get_register_count(stack)
          /\ Cardinality(EntriesFor(stack', last'.regnum)) = 1
          /\ \A e \in EntriesFor(stack', last'.regnum) :
                /\ stack'.entries[e].rule = last'.rule
                /\ stack'.entries[e].value = last'.value]_vars

(* An update with the free list empty: one entry is bound at the level, the
   other was left behind at a popped level. *)
C6_Witness ==
    /\ last.op = "set_register" /\ last.present /\ last.ret
    /\ stack.free_list = DWARF_CFA_STACK_INVALID_ENTRY_IDX
    /\ get_register_count(stack) = 1
    /\ \E e \in EntryIdx : Places(stack, e) = 0

----------------------------------------------------------------------------
(* C7.  Iterator completeness: what a fresh iterator produces, with no call
   but next() in between, are (regnum, rule, value) triples that
   get_register_rule finds at the current level, none twice; and when next()
   returns false they are all of them, their number being
   get_register_count(). *)
C7_IteratorComplete ==
    /\ last.op \in {"iterator", "next"} =>
          /\ Range(hist.yielded) \subseteq RuleSet(stack)
          /\ Len(hist.yielded) = Cardinality(Range(hist.yielded))
          /\ Cardinality({t[1] : t \in Range(hist.yielded)}) = Len(hist.yielded)
    /\ (last.op = "next" /\ ~last.ret) =>
          /\ Range(hist.yielded) = RuleSet(stack)
          /\ Len(hist.yielded) = get_register_count(stack)

(* An iteration, run to its end, over two registers of different buckets. *)
C7_Witness ==
    /\ last.op = "next" /\ ~last.ret
    /\ Len(hist.yielded) = 2
    /\ bucket_of(hist.yielded[1][1]) # bucket_of(hist.yielded[2][1])

(* C8.  Push isolation: right after a successful push_state the register
   count is 0 and get_register_rule finds no register, whatever is bound at
   the levels below and whatever an earlier occupancy left in the table of
   the new level; the registers of the level below stay bound at that level. *)
C8_PushIsolation ==
    (last.op = "push_state" /\ last.ret) =>
       /\ get_register_count(stack) = 0
       /\ \A r \in RegNums : ~Bound(stack, r)
       /\ RuleSetAt(stack, stack.table_depth - 1)
             = hist.saved[stack.table_depth - 1].rules

(* A push_state from a level that holds a register, onto a level whose
   table still held an entry of an earlier occupancy. *)
C8_Witness ==
    /\ last.op = "push_state" /\ last.ret /\ last.present
    /\ stack.register_count[stack.table_depth - 1] > 0

(* C9.  Depth bound: the depth stays within 0..DWARF_CFA_STACK_MAX_STATES-1,
   so the assertion of push_state holds at every call; push_state returns
   false exactly at depth DWARF_CFA_STACK_MAX_STATES-1, and then changes
   nothing of the object. *)
C9_DepthBound ==
    [][/\ stack'.table_depth \in Levels
       /\ last'.op = "push_state" =>
             /\ stack.table_depth + 1 <= DWARF_CFA_STACK_MAX_STATES
             /\ ~last'.ret <=> (stack.table_depth = DWARF_CFA_STACK_MAX_STATES - 1)
             /\ ~last'.ret => stack' = stack
             /\ last'.ret => stack'.table_depth = stack.table_depth + 1]_vars

(* A push_state refused at the deepest level, with registers bound there. *)
C9_Witness ==
    /\ last.op = "push_state" /\ ~last.ret
    /\ stack.table_depth = DWARF_CFA_STACK_MAX_STATES - 1
    /\ get_register_count(stack) > 0

(* C10.  pop_state returns false exactly at depth 0, and then changes
   nothing; otherwise it returns true and lowers the depth by one, leaving
   every table, every register count, every entry and the free list as they
   were. *)
C10_PopState ==
    [][last'.op = "pop_state" =>
          /\ ~last'.ret <=> (stack.table_depth = 0)
          /\ ~last'.ret => stack' = stack
          /\ last'.ret =>
                stack' = [stack EXCEPT !.table_depth = stack.table_depth - 1]]_vars

(* A pop_state that left a level with a register bound at it. *)
C10_Witness ==
    /\ last.op = "pop_state" /\ last.ret
    /\ stack.register_count[stack.table_depth + 1] = 1
    /\ StaleAbove(stack)

----------------------------------------------------------------------------
(* The entries reachable from the table of `level` that hold regnum, each
   with the bucket whose chain it is on. *)
HoldersAt(self, level, regnum) ==
    {<<b, e>> \in Buckets \X DOMAIN self.entries :
        /\ e \in Range(BucketChain(self, level, b))
        /\ self.entries[e].regnum = regnum}

(* C11.  No duplicate registers per level: at every level in use and for
   every register number, at most one entry reachable from the level's table
   holds that number, it is on the chain of bucket regnum mod bucket count,
   and it is there once. *)
C11_NoDuplicates ==
    \A l \in LiveLevels(stack), r \in RegNums :
       /\ Cardinality(HoldersAt(stack, l, r)) <= 1
       /\ \A h \in HoldersAt(stack, l, r) :
             /\ h[1] = bucket_of(r)
             /\ Occurrences(BucketChain(stack, l, h[1]), h[2]) = 1

(* A set_register of a register already bound at the current level, while
   the level below binds the same register number in an entry of its own. *)
C11_Witness ==
    /\ last.op = "set_register" /\ last.present /\ last.ret
    /\ stack.table_depth > 0
    /\ HoldersAt(stack, stack.table_depth, last.regnum) # {}
    /\ HoldersAt(stack, stack.table_depth - 1, last.regnum) # {}
    /\ HoldersAt(stack, stack.table_depth, last.regnum)
          # HoldersAt(stack, stack.table_depth - 1, last.regnum)

(* C12.  Removing an absent register is a no-op: remove_register of a
   register that get_register_rule does not find at the current level returns
   and leaves the whole object as it was: the register counts, every table,
   every entry with its links, and the free list. *)
C12_RemoveAbsentNoOp ==
    [][(last'.op = "remove_register" /\ ~last'.present) =>
          /\ ~hung'
          /\ stack' = stack]_vars

(* A removal of a register absent at the current level, which the level
   below binds and of which an entry of the free list still holds the
   number. *)
C12_Witness ==
    /\ last.op = "remove_register" /\ ~last.present
    /\ stack.table_depth > 0
    /\ HoldersAt(stack, stack.table_depth - 1, last.regnum) # {}
    /\ \E e \in Range(FreeChain(stack)) : stack.entries[e].regnum = last.regnum

----------------------------------------------------------------------------
(* C13.  Lookup correctness: get_register_rule(r) returns true, with the
   rule and the value, exactly when the call made last for r at the current
   level since the level was entered is a set_register(r, rule, value) that
   succeeded (no remove_register(r) after it); otherwise it returns false and
   leaves its output arguments as they were; either way the object is
   unchanged. *)
C13_LookupCorrect ==
    [][last'.op = "get_register_rule" =>
          LET recent == hist.recent[stack.table_depth][last'.regnum]
          IN /\ last'.ret <=> (recent # {})
             /\ last'.ret => recent = {<<last'.rule, last'.value>>}
             /\ ~last'.ret => (last'.rule = Unset /\ last'.value = Unset)
             /\ stack' = stack]_vars

(* A lookup that finds a register at a level entered by push_state from a
   level that binds the register too, with another rule and value. *)
C13_Witness ==
    /\ last.op = "get_register_rule" /\ last.ret
    /\ stack.table_depth > 0
    /\ \E h \in HoldersAt(stack, stack.table_depth - 1, last.regnum) :
          <<stack.entries[h[2]].rule, stack.entries[h[2]].value>>
             # <<last.rule, last.value>>

----------------------------------------------------------------------------
(* C14.  Register count invariant: at every level in use the stored register
   count is the number of entries reachable from the level's table, which is
   the number of registers that get_register_rule finds at that level; it is
   at most DWARF_CFA_STACK_MAX_REGISTERS and never below zero (as uint8_t:
   never wrapped around). *)
C14_RegisterCount ==
    \A l \in LiveLevels(stack) :
       /\ stack.register_count[l] = Cardinality(EntriesAt(stack, l))
       /\ stack.register_count[l] = Cardinality(RuleSetAt(stack, l))
       /\ stack.register_count[l] \in 0..DWARF_CFA_STACK_MAX_REGISTERS

----------------------------------------------------------------------------
(* The entries set_register can still use or reuse: those on the free list
   and those reachable from the table of a level in use. *)
LiveEntries(self) ==
    Range(FreeChain(self)) \cup UNION {EntriesAt(self, l) : l \in LiveLevels(self)}

(* C15.  Reclamation only by explicit removal: push_state and pop_state
   leave the free list as it is; an entry that was still reachable from the
   table of a level when pop_state left the level is on the free list in no
   later state; so after k cycles of push_state, set_register of one register
   not bound, pop_state, the entries on the free list and at the levels in
   use are at most DWARF_CFA_STACK_MAX_REGISTERS - k for good, and exactly
   that many, all on the free list, when the caller has made no other
   call. *)
C15_ReclamationOnlyByRemoval ==
    [][/\ last'.op \in {"push_state", "pop_state"} =>
             /\ stack'.free_list = stack.free_list
             /\ FreeChain(stack') = FreeChain(stack)
       /\ hist'.leaked \cap Range(FreeChain(stack')) = {}
       /\ Cardinality(LiveEntries(stack'))
             <= DWARF_CFA_STACK_MAX_REGISTERS - hist'.cycles.done
       /\ (hist'.cycles.only /\ hist'.cycles.phase = 0) =>
             Len(FreeChain(stack'))
                = DWARF_CFA_STACK_MAX_REGISTERS - hist'.cycles.done]_vars

(* After as many cycles as the pool has entries, at depth 0 with no register
   bound, set_register fails: the free list is empty. *)
C15_Witness ==
    /\ last.op = "set_register" /\ ~last.ret
    /\ hist.cycles.done = DWARF_CFA_STACK_MAX_REGISTERS
    /\ Cardinality(hist.leaked) = DWARF_CFA_STACK_MAX_REGISTERS
    /\ stack.table_depth = 0
    /\ get_register_count(stack) = 0
    /\ stack.free_list = DWARF_CFA_STACK_INVALID_ENTRY_IDX

----------------------------------------------------------------------------
(* What get_register_rule gives for regnum: the set of the (rule, value) it
   returns, empty when it returns false. *)
Binding(self, regnum) ==
    IF get_register_rule(self, regnum).ret
    THEN {<<get_register_rule(self, regnum).rule,
            get_register_rule(self, regnum).value>>}
    ELSE {}

(* C16.  Collision handling preserves other bindings: set_register(r, ..)
   and remove_register(r) leave the binding (presence, rule, value) of every
   other register at the current level as it was, the registers of the
   bucket of r among them, wherever in the chain the entry of r is. *)
C16_OthersPreserved ==
    [][last'.op \in {"set_register", "remove_register"} =>
          \A q \in (RegNums \cup ChainRegNums) \ {last'.regnum} :
             Binding(stack', q) = Binding(stack, q)]_vars

(* A removal of the middle entry of a chain of three that returned, with
   the registers of the first and of the last entry still bound. *)
C16_Witness ==
    /\ last.op = "remove_register" /\ last.present /\ ~hung
    /\ last.chain = 3 /\ last.iters = 2
    /\ Cardinality({q \in ChainRegNums : Binding(stack, q) # {}}) = 2
    /\ Len(BucketChain(stack, stack.table_depth, bucket_of(last.regnum))) = 2

----------------------------------------------------------------------------
(* C17.  Lower levels are frozen: no call made at depth d changes, for a
   level below d, the bucket table, the register count, or a field (regnum,
   rule, value, next) of an entry reachable from that level's table. *)
C17_LowerLevelsFrozen ==
    [][\A l \in 0..(stack.table_depth - 1) :
          /\ stack'.table_stack[l] = stack.table_stack[l]
          /\ stack'.register_count[l] = stack.register_count[l]
          /\ \A e \in EntriesAt(stack, l) :
                stack'.entries[e] = stack.entries[e]]_vars

(* A removal, at a level above level 0, of a register that the level below
   binds too: the entry of the upper level went to the free list, that of
   the level below is where it was. *)
C17_Witness ==
    /\ last.op = "remove_register" /\ last.present /\ ~hung
    /\ stack.table_depth > 0
    /\ HoldersAt(stack, stack.table_depth - 1, last.regnum) # {}
    /\ stack.free_list # DWARF_CFA_STACK_INVALID_ENTRY_IDX
    /\ stack.entries[stack.free_list].regnum = last.regnum

----------------------------------------------------------------------------
(* The registers bound at the current level by the caller's calls: bucket by
   bucket from `bucket` on, each bucket's in the order they were bound. *)
RECURSIVE InsertionOrder(_, _)
InsertionOrder(h, bucket) ==
    IF bucket = DWARF_CFA_STACK_BUCKET_COUNT THEN <<>>
    ELSE h[bucket] \o InsertionOrder(h, bucket + 1)

(* C18.  Iterator order: with no call but next() since the iterator was
   constructed, the registers produced so far are the first ones of the
   registers bound at the current level taken by ascending bucket index
   (regnum mod bucket count) and, within a bucket, in the order in which the
   registers now bound were bound (a set_register of a bound register moves
   nothing; a register removed and set again is the last of its bucket). *)
C18_IteratorOrder ==
    last.op \in {"iterator", "next"} =>
       LET expected == InsertionOrder(hist.order[stack.table_depth], 0)
       IN /\ Len(hist.yielded) <= Len(expected)
          /\ \A i \in 1..Len(hist.yielded) : hist.yielded[i][1] = expected[i]
          /\ (last.op = "next" /\ ~last.ret) => Len(hist.yielded) = Len(expected)

(* A complete iteration over two registers of one bucket, the one with the
   higher number first; the chain's head is the second entry of the pool and
   its tail the first, which therefore was removed and taken again for the
   register bound last. *)
C18_Witness ==
    /\ last.op = "next" /\ ~last.ret
    /\ Len(hist.yielded) = 2
    /\ bucket_of(hist.yielded[1][1]) = bucket_of(hist.yielded[2][1])
    /\ hist.yielded[1][1] > hist.yielded[2][1]
    /\ stack.table_stack[stack.table_depth][bucket_of(hist.yielded[1][1])] = 1

----------------------------------------------------------------------------
(* C19.  Iterator exhaustion is final: a next() call on an iterator whose
   previous next() call returned false (no other call in between) returns
   false too and writes none of its outputs; it reads no bucket and leaves
   the iterator past the last bucket, where the first false left it; and in
   no next() call does the bucket index go beyond the bucket count or a read
   of the table use an index at or beyond it. *)
C19_ExhaustionFinal ==
    [][last'.op = "next" =>
          /\ iter'.bucket_idx \in 0..DWARF_CFA_STACK_BUCKET_COUNT
          /\ iter'.bucket_idx >= iter.bucket_idx
          /\ last'.iters <= DWARF_CFA_STACK_BUCKET_COUNT - iter.bucket_idx
          /\ ~last'.ret => iter'.bucket_idx = DWARF_CFA_STACK_BUCKET_COUNT
          /\ (last.op = "next" /\ ~last.ret) =>
                /\ ~last'.ret
                /\ last'.regnum = Unset /\ last'.rule = Unset /\ last'.value = Unset
                /\ last'.iters = 0
                /\ iter' = iter]_vars

(* The second false next() of an iterator that had produced two registers. *)
C19_Witness ==
    /\ last.op = "next" /\ ~last.ret
    /\ hist.false_nexts = 2
    /\ Len(hist.yielded) = 2
    /\ iter.bucket_idx = DWARF_CFA_STACK_BUCKET_COUNT

====
